---- MODULE Spec2Model ----
(***************************************************************************)
(* Config flow of the Xiaomi Viomi integration                             *)
(* (custom_components/xiaomi_viomi/config_flow.py).                        *)
(*                                                                         *)
(* One flow handler instance takes user steps (async_step_user); each      *)
(* submission runs validate_input against the device and then creates,     *)
(* updates or leaves alone the platform's config entry store.              *)
(*                                                                         *)
(* Strings that the code only compares or copies are TLA+ strings; the     *)
(* token is a string whose length the schema measures; a MAC address is a  *)
(* sequence of one-character strings, because format_mac rewrites it       *)
(* character by character.                                                 *)
(***************************************************************************)
EXTENDS Integers, Sequences, FiniteSets, TLC

VARIABLES
    entries,      \* hass.config_entries of this domain, in creation order
    flow,         \* the flow handler instance: lifecycle state and context unique_id
    user_input,   \* argument of the last async_step_user call
    device,       \* what the device / SDK did during that call
    raised,       \* the exception validate_input raised in that call, "none" if it returned
    info,         \* the record validate_input returned in that call
    result,       \* the FlowResult the call returned
    events,       \* calls made to the SDK and the platform during that call, in order
    steps         \* number of submissions so far

vars == <<entries, flow, user_input, device, raised, info, result, events, steps>>

\* Bound on the number of submissions explored.
MaxSteps == 2

\* Python's None.
None == [none |-> TRUE]

-----------------------------------------------------------------------------
(* Inputs *)

Hosts == {"10.0.0.5", "10.0.0.6"}

TOKEN_A     == "0123456789abcdef0123456789abcdef"
TOKEN_B     == "ffffffffffffffffffffffffffffffff"
TOKEN_SHORT == "0123456789abcdef0123456789abcde"
TOKEN_LONG  == "0123456789abcdef0123456789abcdef0"
Tokens == {TOKEN_A, TOKEN_B, TOKEN_SHORT}

\* Names a user can type; the key can also be left out of the mapping.
Names == {"", "Robo"}

Models == {"viomi.vacuum.v8", "viomi.vacuum.v7"}

\* The same device reported in two notations, and a second device.
MAC_A_COLON == <<"A","A",":","B","B",":","C","C",":","D","D",":","E","E",":","F","F">>
MAC_A_BARE  == <<"A","A","B","B","C","C","D","D","E","E","F","F">>
MAC_B_DASH  == <<"A","A","-","B","B","-","C","C","-","D","D","-","E","E","-","0","1">>
Macs == {MAC_A_COLON, MAC_A_BARE, MAC_B_DASH}

\* user_input mappings: host and token always present, name optional. The
\* over-long token is submitted in one mapping only; the schema looks at
\* nothing but its length.
UserInputs ==
    { [host |-> h, token |-> t] : h \in Hosts, t \in Tokens }
    \cup { [host |-> h, token |-> t, name |-> n] : h \in Hosts, t \in Tokens, n \in Names }
    \cup { [host |-> "10.0.0.5", token |-> TOKEN_LONG] }

\* What ViomiVacuum(host, token) and device.info() can do.
\*   info          info() returns a DeviceInfo with model and mac_address
\*   no_info       info() returns a falsy value
\*   device_error  info() raises DeviceException; cause says whether its
\*                 __cause__ is a ChecksumError
\*   error         something else is raised, by the constructor or by info()
DeviceOutcomes ==
    { [kind |-> "info", model |-> m, mac_address |-> a] : m \in Models, a \in Macs }
    \cup { [kind |-> "no_info"] }
    \cup { [kind |-> "device_error", cause |-> c] : c \in {"ChecksumError", "other"} }
    \cup { [kind |-> "error", at |-> w] : w \in {"ViomiVacuum", "info"} }

-----------------------------------------------------------------------------
(* format_mac, the platform's helper (homeassistant.helpers.device_registry): *)
(* an address of 17 characters with five colons is lowercased; one with five *)
(* dashes, or of 14 characters with two dots, loses its separators; twelve   *)
(* characters are lowercased and joined in pairs by colons; anything else is *)
(* returned as it is. Addresses are hexadecimal, so Lower maps A to F.       *)

Lower(c) ==
    CASE c = "A" -> "a" [] c = "B" -> "b" [] c = "C" -> "c"
      [] c = "D" -> "d" [] c = "E" -> "e" [] c = "F" -> "f"
      [] OTHER -> c

LowerAll(s) == [i \in 1..Len(s) |-> Lower(s[i])]

Count(s, ch) == Cardinality({i \in 1..Len(s) : s[i] = ch})

Remove(s, ch) == SelectSeq(s, LAMBDA c : c # ch)

\* ":".join(s[i:i+2] for i in range(0, 12, 2)) for a 12-character s
JoinPairs(s) ==
    [i \in 1..17 |-> IF i % 3 = 0 THEN ":" ELSE s[i - (i \div 3)]]

format_mac(mac) ==
    IF Len(mac) = 17 /\ Count(mac, ":") = 5
    THEN LowerAll(mac)
    ELSE LET to_test ==
                 IF Len(mac) = 17 /\ Count(mac, "-") = 5 THEN Remove(mac, "-")
                 ELSE IF Len(mac) = 14 /\ Count(mac, ".") = 2 THEN Remove(mac, ".")
                 ELSE mac
         IN  IF Len(to_test) = 12 THEN JoinPairs(LowerAll(to_test)) ELSE mac

\* format_mac of each address a device can report, computed once.
FormattedMac == [mac \in Macs |-> format_mac(mac)]

-----------------------------------------------------------------------------
(* DEVICE_CONFIG *)

TOKEN_LENGTH == 32

DEVICE_DEFAULT_NAME == "Unnamed Device"

\* The schema applied to a mapping: whether it validates, and the validated
\* copy (with the default name filled in) that the call returns.
DEVICE_CONFIG(data) ==
    IF Len(data.token) = TOKEN_LENGTH
    THEN [ok |-> TRUE,
          value |-> [host |-> data.host, token |-> data.token,
                     name |-> IF "name" \in DOMAIN data THEN data.name
                              ELSE DEVICE_DEFAULT_NAME]]
    ELSE [ok |-> FALSE, value |-> None]

-----------------------------------------------------------------------------
(* ViomiDeviceHub.async_device_is_connectable *)

\* raised: "none" when the call returns, else the exception that leaves it.
async_device_is_connectable(host, token, dev) ==
    IF dev.kind = "error" /\ dev.at = "ViomiVacuum"
    THEN [raised |-> "Exception", ret |-> FALSE, device_info |-> None,
          calls |-> <<"ViomiVacuum">>]
    ELSE LET calls == <<"ViomiVacuum", "info">> IN
         CASE dev.kind = "info" ->
                [raised |-> "none", ret |-> TRUE, device_info |-> dev, calls |-> calls]
           [] dev.kind = "no_info" ->
                [raised |-> "none", ret |-> TRUE, device_info |-> None, calls |-> calls]
           [] dev.kind = "device_error" ->
                IF dev.cause = "ChecksumError"
                THEN [raised |-> "ConfigEntryAuthFailed", ret |-> FALSE,
                      device_info |-> None, calls |-> calls]
                ELSE [raised |-> "none", ret |-> FALSE, device_info |-> None,
                      calls |-> calls]
           [] OTHER ->
                [raised |-> "Exception", ret |-> FALSE, device_info |-> None,
                 calls |-> calls]

-----------------------------------------------------------------------------
(* validate_input *)

\* Variant: an empty supplied name falls back to the model too
\* (data.get(CONF_NAME) or hub.device_info.model).
ResolveName_OrModel(data, device_info) ==
    IF "name" \in DOMAIN data /\ data.name # "" THEN data.name ELSE device_info.model

\* name = data[CONF_NAME] if CONF_NAME in data else hub.device_info.model
ResolveName(data, device_info) ==
    IF "name" \in DOMAIN data THEN data.name ELSE device_info.model

\* Variant: the reported address is stored without format_mac.
BuildRecord_RawMac(data, device_info) ==
    [host      |-> data.host,
     token     |-> data.token,
     model     |-> device_info.model,
     name      |-> ResolveName(data, device_info),
     unique_id |-> device_info.mac_address,
     mac       |-> device_info.mac_address]

\* The returned mapping.
BuildRecord(data, device_info) ==
    [host      |-> data.host,
     token     |-> data.token,
     model     |-> device_info.model,
     name      |-> ResolveName(data, device_info),
     unique_id |-> FormattedMac[device_info.mac_address],
     mac       |-> FormattedMac[device_info.mac_address]]

\* raised: "none" when the record is returned. A schema error (vol.Invalid) and
\* the attribute access on a missing device_info (AttributeError) are both
\* plain exceptions for the caller.
validate_input(data, dev) ==
    LET hub == async_device_is_connectable(data.host, data.token, dev) IN
    IF hub.raised # "none"
    THEN [raised |-> hub.raised, info |-> None, calls |-> hub.calls]
    ELSE IF ~hub.ret
    THEN [raised |-> "InvalidAuth", info |-> None, calls |-> hub.calls]
    ELSE IF ~DEVICE_CONFIG(data).ok
    THEN [raised |-> "Exception", info |-> None, calls |-> hub.calls]
    ELSE IF hub.device_info = None
    THEN [raised |-> "Exception", info |-> None, calls |-> hub.calls]
    ELSE [raised |-> "none", info |-> BuildRecord(data, hub.device_info),
          calls |-> hub.calls]

-----------------------------------------------------------------------------
(* The platform: config entry store and flow results *)

\* A flow's context unique_id before async_set_unique_id is called (None).
NoUniqueId == << >>

Call(op, entry_id) == [op |-> op, entry_id |-> entry_id]

SdkCalls(calls) == [i \in 1..Len(calls) |-> Call(calls[i], 0)]

\* Variant: the lookup never finds an entry.
async_set_unique_id_None(es, uid) == 0

\* Position in the store of the entry whose unique_id is uid, 0 when there is
\* none: the entry async_set_unique_id returns.

async_set_unique_id(es, uid) ==
    IF \E i \in 1..Len(es) : es[i].unique_id = uid
    THEN CHOOSE i \in 1..Len(es) :
             /\ es[i].unique_id = uid
             /\ \A j \in 1..Len(es) : es[j].unique_id = uid => i <= j
    ELSE 0

\* Variant: the update is dropped.
async_update_entry_Skip(es, i, data) == es

async_update_entry(es, i, data) == [es EXCEPT ![i].data = data]

\* The entry the platform stores when a flow returns a create_entry result.
NewEntry(es, fl, title, data) ==
    [entry_id |-> Len(es) + 1, unique_id |-> fl.unique_id, title |-> title, data |-> data]

\* Variant: the form is rendered without the errors argument.
async_show_form_NoErrors(errors) ==
    [type |-> "form", errors |-> {}, reason |-> "", title |-> "", data |-> None]

async_show_form(errors) ==
    [type |-> "form", errors |-> errors, reason |-> "", title |-> "", data |-> None]

async_abort(reason) ==
    [type |-> "abort", errors |-> {}, reason |-> reason, title |-> "", data |-> None]

async_create_entry(title, data) ==
    [type |-> "create_entry", errors |-> {}, reason |-> "", title |-> title, data |-> data]

-----------------------------------------------------------------------------
(* XiaomiViomiFlowHandler.async_step_user *)

\* Variant: the second clause reads "except InvalidAuth".
ErrorCode_InvalidAuthOnly(exc) ==
    IF exc = "CannotConnect" THEN "cannot_connect"
    ELSE IF exc = "InvalidAuth" THEN "invalid_auth"
    ELSE "unknown"

\* Variant: the broad clause sets cannot_connect.
ErrorCode_BroadAsCannotConnect(exc) ==
    IF exc \in {"InvalidAuth", "ConfigEntryAuthFailed"} THEN "invalid_auth"
    ELSE "cannot_connect"

\* The except clauses: the error code set under "base" for what validate_input raised.
ErrorCode(exc) ==
    IF exc = "CannotConnect" THEN "cannot_connect"
    ELSE IF exc \in {"InvalidAuth", "ConfigEntryAuthFailed"} THEN "invalid_auth"
    ELSE "unknown"

\* Variant: the name is taken from the record without the title fallback.
MergeData_NoTitleFallback(existing_entry, new) ==
    [existing_entry.data EXCEPT
        !.host  = new.host,
        !.token = new.token,
        !.name  = new.name,
        !.model = new.model]

\* The data written to an existing entry.
MergeData(existing_entry, new) ==
    [existing_entry.data EXCEPT
        !.host  = new.host,
        !.token = new.token,
        !.name  = IF new.name # "" THEN new.name ELSE existing_entry.title,
        !.model = new.model]

\* The else branch: validate_input returned the record new.
Register(es, fl, new, sdk) ==
    LET unique_id      == new.mac
        existing_entry == async_set_unique_id(es, unique_id)
        fl2            == [fl EXCEPT !.unique_id = unique_id]
    IN  IF existing_entry # 0
        THEN LET data == MergeData(es[existing_entry], new)
                 id   == es[existing_entry].entry_id
             IN  [entries |-> async_update_entry(es, existing_entry, data),
                  flow    |-> [fl2 EXCEPT !.state = "terminal"],
                  result  |-> async_abort("already_configured"),
                  events  |-> sdk \o <<Call("async_set_unique_id", 0),
                                       Call("async_update_entry", id),
                                       Call("async_reload", id),
                                       Call("async_abort", 0)>>]
        ELSE [entries |-> Append(es, NewEntry(es, fl2, new.name, new)),
              flow    |-> [fl2 EXCEPT !.state = "terminal"],
              result  |-> async_create_entry(new.name, new),
              events  |-> sdk \o <<Call("async_set_unique_id", 0),
                                   Call("async_create_entry", 0)>>]

\* The step once validate_input has returned or raised (v).
Finish(es, fl, v) ==
    IF v.raised # "none"
    THEN [entries |-> es,
          flow    |-> [fl EXCEPT !.state = "awaiting_input"],
          result  |-> async_show_form({ErrorCode(v.raised)}),
          events  |-> SdkCalls(v.calls),
          raised  |-> v.raised,
          info    |-> None]
    ELSE LET r == Register(es, fl, v.info, SdkCalls(v.calls))
         IN  [entries |-> r.entries, flow |-> r.flow, result |-> r.result,
              events |-> r.events, raised |-> "none", info |-> v.info]

\* The whole step for a submitted mapping: the store, the flow, the result and
\* the calls it leaves behind.
async_step_user(es, fl, input, dev) == Finish(es, fl, validate_input(input, dev))

-----------------------------------------------------------------------------
(* State machine *)

NewHandler == [state |-> "init", unique_id |-> NoUniqueId]

NoResult == [type |-> "none", errors |-> {}, reason |-> "", title |-> "", data |-> None]

NoDevice == [kind |-> "none"]

\* The store a flow can find when it starts: empty, or holding the entry an
\* earlier flow created for the second device.
PRIOR_INPUT  == [host |-> "10.0.0.6", token |-> TOKEN_B]
PRIOR_DEVICE == [kind |-> "info", model |-> "viomi.vacuum.v7", mac_address |-> MAC_B_DASH]
InitialStores ==
    { << >>, async_step_user(<< >>, NewHandler, PRIOR_INPUT, PRIOR_DEVICE).entries }

Init ==
    /\ entries \in InitialStores
    /\ flow = NewHandler
    /\ user_input = None
    /\ device = NoDevice
    /\ raised = "none"
    /\ info = None
    /\ result = NoResult
    /\ events = << >>
    /\ steps = 0

\* async_step_user(None): the platform opens the flow and the form is shown.
ShowForm ==
    /\ flow.state = "init"
    /\ flow' = [flow EXCEPT !.state = "awaiting_input"]
    /\ user_input' = None
    /\ device' = NoDevice
    /\ raised' = "none"
    /\ info' = None
    /\ result' = async_show_form({})
    /\ events' = << >>
    /\ UNCHANGED <<entries, steps>>

\* async_step_user(user_input): a mapping is submitted to the flow, from the
\* form or when the flow is started with data.
Submit ==
    /\ flow.state \in {"init", "awaiting_input"}
    /\ steps < MaxSteps
    /\ \E input \in UserInputs, dev \in DeviceOutcomes :
         \E r \in {async_step_user(entries, flow, input, dev)} :
            /\ entries' = r.entries
            /\ flow' = r.flow
            /\ user_input' = input
            /\ device' = dev
            /\ raised' = r.raised
            /\ info' = r.info
            /\ result' = r.result
            /\ events' = r.events
    /\ steps' = steps + 1

\* The platform instantiates a fresh handler for the next flow.
NewFlow ==
    /\ flow.state # "init"
    /\ flow' = NewHandler
    /\ user_input' = None
    /\ device' = NoDevice
    /\ raised' = "none"
    /\ info' = None
    /\ result' = NoResult
    /\ events' = << >>
    /\ UNCHANGED <<entries, steps>>

Next == ShowForm \/ Submit \/ NewFlow

Spec == Init /\ [][Next]_vars

TypeOK ==
    /\ flow.state \in {"init", "awaiting_input", "terminal"}
    /\ result.type \in {"none", "form", "create_entry", "abort"}
    /\ steps \in 0..MaxSteps
    /\ \A i \in 1..Len(entries) : entries[i].entry_id = i

-----------------------------------------------------------------------------
(* Properties *)

\* The step being taken is a submission.
SubmitStep == steps' = steps + 1

\* The last step taken was a submission.
Submitted == user_input # None

HasCall(evs, op) == \E i \in 1..Len(evs) : evs[i].op = op

CountCalls(evs, op) == Cardinality({i \in 1..Len(evs) : evs[i].op = op})

StoreCalls ==
    {"async_set_unique_id", "async_update_entry", "async_reload",
     "async_create_entry", "async_abort"}

NoStoreCalls(evs) == \A i \in 1..Len(evs) : evs[i].op \notin StoreCalls

\* Colon-separated lowercase hexadecimal, six octets.
IsCanonical(mac) ==
    /\ Len(mac) = 17
    /\ \A i \in 1..17 :
         IF i % 3 = 0 THEN mac[i] = ":"
         ELSE mac[i] \in {"0","1","2","3","4","5","6","7","8","9","a","b","c","d","e","f"}

\* The device answered the submission with a generic DeviceException.
GenericDeviceError ==
    Submitted /\ device.kind = "device_error" /\ device.cause # "ChecksumError"

\* The submission carried a 32-character token and the device reported its identity.
ValidResponse ==
    Submitted /\ Len(user_input.token) = TOKEN_LENGTH /\ device.kind = "info"

\* C1: a submission answered by a DeviceException whose cause is not a
\* checksum failure ends with the form re-rendered with error cannot_connect.
C1_GenericDeviceErrorCannotConnect ==
    GenericDeviceError => result = async_show_form({"cannot_connect"})

\* C2: a submission answered by a DeviceException whose cause is a checksum
\* failure ends with the form re-rendered with error invalid_auth, and the
\* store is left as it was: nothing created, nothing updated.
C2_ChecksumInvalidAuth ==
    [][(SubmitStep /\ device'.kind = "device_error" /\ device'.cause = "ChecksumError")
          => /\ result' = async_show_form({"invalid_auth"})
             /\ entries' = entries
             /\ NoStoreCalls(events')]_vars

C2_Witness ==
    /\ Submitted
    /\ device.kind = "device_error" /\ device.cause = "ChecksumError"
    /\ result.type = "form"
    /\ Len(entries) = 1

\* C3: a submission whose token is not exactly 32 characters long is rejected
\* before any connection attempt: no device client is constructed and no
\* identity query is issued.
C3_BadTokenNoConnection ==
    (Submitted /\ Len(user_input.token) # TOKEN_LENGTH)
        => ~HasCall(events, "ViomiVacuum") /\ ~HasCall(events, "info")

\* What C4 says of every field but the name.
RecordFields ==
    /\ raised = "none"
    /\ info.unique_id = format_mac(device.mac_address)
    /\ info.mac = format_mac(device.mac_address)
    /\ IsCanonical(info.unique_id)
    /\ info.host = user_input.host
    /\ info.token = user_input.token
    /\ info.model = device.model

\* C4 (as stated): for a valid input answered normally, validate_input returns
\* a record whose unique_id and mac are the canonical MAC, whose host, token
\* and model are the input's and the device's, and whose name is the supplied
\* name if non-empty, else the device model, an empty supplied name included.
C4_NameNonEmptyElseModel ==
    ValidResponse =>
        /\ RecordFields
        /\ info.name = IF "name" \in DOMAIN user_input /\ user_input.name # ""
                       THEN user_input.name ELSE device.model

\* C4 (amended): the same record, whose name is the supplied name whenever the
\* input carries a name, the empty string included, and the device model only
\* when the input carries no name.
C4_NameIfSuppliedElseModel ==
    ValidResponse =>
        /\ RecordFields
        /\ info.name = IF "name" \in DOMAIN user_input
                       THEN user_input.name ELSE device.model

C4_Witness ==
    /\ ValidResponse
    /\ "name" \in DOMAIN user_input /\ user_input.name = ""
    /\ info.name = ""
    /\ device.mac_address = MAC_A_BARE

\* C5: when a valid input answered normally is submitted and the store holds
\* the entry a first submission of that same input created (the returned
\* record as data, its name as title), the step aborts with already_configured,
\* no further entry appears, and the entry's host, token, name and model are
\* the submission's values.
C5_ResubmitIdempotent ==
    [][(/\ SubmitStep
        /\ raised' = "none"
        /\ \E i \in 1..Len(entries) :
              /\ entries[i].unique_id = info'.unique_id
              /\ entries[i].data = info'
              /\ entries[i].title = info'.name)
          => /\ result' = async_abort("already_configured")
             /\ Len(entries') = Len(entries)
             /\ \A i \in 1..Len(entries) :
                   entries[i].unique_id = info'.unique_id
                     => /\ entries'[i].data.host = info'.host
                        /\ entries'[i].data.token = info'.token
                        /\ entries'[i].data.name = info'.name
                        /\ entries'[i].data.model = info'.model]_vars

C5_Witness ==
    /\ ValidResponse
    /\ steps = 2
    /\ Len(entries) = 1
    /\ result.type = "abort"
    /\ entries[1].data = info
    /\ entries[1].title = info.name

\* C6: a submission whose validation fails leaves the store and the flow's
\* unique id as they were, makes no call to the store, and returns the flow to
\* awaiting input with the form carrying exactly one of the three error codes.
C6_FailureLeavesStore ==
    [][(SubmitStep /\ raised' # "none")
          => /\ entries' = entries
             /\ flow'.unique_id = flow.unique_id
             /\ flow'.state = "awaiting_input"
             /\ NoStoreCalls(events')
             /\ result'.type = "form"
             /\ Cardinality(result'.errors) = 1
             /\ result'.errors \subseteq {"cannot_connect", "invalid_auth", "unknown"}]_vars

C6_Witness ==
    /\ Submitted
    /\ raised # "none"
    /\ result.type = "form"
    /\ Len(entries) = 2

\* The submission failed for a reason that is neither a device exception nor
\* a rejected token: another exception, a missing identity, or a mapping the
\* schema rejects once the device has answered.
UnexpectedFailure ==
    /\ Submitted
    /\ \/ device.kind \in {"error", "no_info"}
       \/ device.kind = "info" /\ Len(user_input.token) # TOKEN_LENGTH

\* C7: whatever the device does and whatever the schema says, a submission
\* ends as a form with an error, a created entry or an already_configured
\* abort; a failure that is neither a connect nor an auth failure gives the
\* error unknown.
C7_NoRawException ==
    Submitted =>
        /\ \/ result.type = "form" /\ result.errors # {}
           \/ result.type = "create_entry"
           \/ result = async_abort("already_configured")
        /\ UnexpectedFailure => result = async_show_form({"unknown"})

C7_Witness ==
    /\ Submitted
    /\ device.kind = "no_info"
    /\ result = async_show_form({"unknown"})

\* C8: a successful validation whose unique id matches an entry of the store
\* updates that entry's data, then requests one reload of that same entry,
\* then aborts with already_configured, and requests no entry creation.
C8_UpdateReloadAbort ==
    [][(/\ SubmitStep
        /\ raised' = "none"
        /\ \E i \in 1..Len(entries) : entries[i].unique_id = info'.unique_id)
          => \E i \in 1..Len(entries) :
               /\ entries[i].unique_id = info'.unique_id
               /\ entries'[i].data.host = info'.host
               /\ entries'[i].data.token = info'.token
               /\ entries'[i].data.model = info'.model
               /\ SubSeq(events', Len(events') - 2, Len(events')) =
                     <<Call("async_update_entry", entries[i].entry_id),
                       Call("async_reload", entries[i].entry_id),
                       Call("async_abort", 0)>>
               /\ CountCalls(events', "async_reload") = 1
               /\ CountCalls(events', "async_update_entry") = 1
               /\ ~HasCall(events', "async_create_entry")
               /\ result' = async_abort("already_configured")]_vars

C8_Witness ==
    /\ Submitted
    /\ result.type = "abort"
    /\ HasCall(events, "async_reload")
    /\ \E i \in 1..Len(entries) :
          /\ entries[i].unique_id = info.unique_id
          /\ entries[i].data.host = info.host
          /\ entries[i].data.model # entries[i].title
          /\ entries[i].title \in Models

\* C9: the merge changes only host, token, name and model of the existing
\* entry's data: host, token and model become the new record's, name becomes
\* the new record's name if non-empty and the entry's title otherwise; the
\* data's unique id and MAC, the entry's title, unique id and entry id, and
\* every other entry stay as they were.
C9_MergeFrame ==
    [][(SubmitStep /\ result'.type = "abort")
          => /\ Len(entries') = Len(entries)
             /\ \E i \in 1..Len(entries) :
                  /\ entries[i].unique_id = info'.unique_id
                  /\ entries'[i].data.host = info'.host
                  /\ entries'[i].data.token = info'.token
                  /\ entries'[i].data.model = info'.model
                  /\ entries'[i].data.name =
                        IF info'.name # "" THEN info'.name ELSE entries[i].title
                  /\ entries'[i].data.unique_id = entries[i].data.unique_id
                  /\ entries'[i].data.mac = entries[i].data.mac
                  /\ DOMAIN entries'[i].data = DOMAIN entries[i].data
                  /\ entries'[i].title = entries[i].title
                  /\ entries'[i].unique_id = entries[i].unique_id
                  /\ entries'[i].entry_id = entries[i].entry_id
                  /\ \A j \in 1..Len(entries) : j # i => entries'[j] = entries[j]]_vars

C9_Witness ==
    /\ Submitted
    /\ result.type = "abort"
    /\ Len(entries) = 2
    /\ info.name = ""
    /\ \E i \in 1..2 :
          /\ entries[i].unique_id = info.unique_id
          /\ entries[i].title # ""
          /\ entries[i].data.name = entries[i].title
          /\ entries[i].data.host # entries[3 - i].data.host

\* The store holds at most one entry per unique id, and each entry's unique id
\* is a canonical MAC, the one its data carries.
StoreKeyedByMac ==
    /\ \A i, j \in 1..Len(entries) :
          entries[i].unique_id = entries[j].unique_id => i = j
    /\ \A i \in 1..Len(entries) :
          /\ IsCanonical(entries[i].unique_id)
          /\ entries[i].data.unique_id = entries[i].unique_id
          /\ entries[i].data.mac = entries[i].unique_id

\* C10: after any sequence of submissions the store holds at most one entry
\* per unique id and every entry's unique id is the normalized MAC of the
\* device it was created for: an entry is created only when the store holds no
\* entry with that normalized MAC, with the returned record as data and the
\* record's name as title.
C10_OneEntryPerMac ==
    /\ []StoreKeyedByMac
    /\ [][(SubmitStep /\ (result'.type = "create_entry" \/ Len(entries') # Len(entries)))
            => /\ result' = async_create_entry(info'.name, info')
               /\ \A i \in 1..Len(entries) :
                     entries[i].unique_id # format_mac(device'.mac_address)
               /\ entries' = Append(entries,
                     [entry_id  |-> Len(entries) + 1,
                      unique_id |-> format_mac(device'.mac_address),
                      title     |-> info'.name,
                      data      |-> info'])]_vars

C10_Witness ==
    /\ Submitted
    /\ result.type = "create_entry"
    /\ Len(entries) = 2
    /\ steps = 2
    /\ device.mac_address = MAC_B_DASH

====
